---- MODULE Spec2Model ----
(***************************************************************************)
(* Model of the WaveGVS cross-process coordination core:                   *)
(*   - GVSHandler (Experiment/GVSHandler.py): the stimulus worker that     *)
(*     owns the analog output and serves the parameter queue;              *)
(*   - WaveExp._check_gvs_status (Experiment/main.py): the status await;   *)
(*   - GVSHandler._analog_feedback_loop: the dual-channel encoding;        *)
(*   - ArduinoHandler (Experiment/arduinoHandler.py): the trigger worker   *)
(*     reading the serial port;                                            *)
(*   - WaveExp.run and quit_exp (Experiment/main.py): the main process     *)
(*     driving the trials and the teardown, with the log Listener.         *)
(* Python values are records with a fixed set of fields so that values of  *)
(* different Python types can be compared.                                 *)
(***************************************************************************)
EXTENDS Integers, Sequences, FiniteSets, TLC

\* ------------------------------------------------------------------ bounds
\* number of commands the parent process puts on the parameter queue
MaxCmds == 3
\* largest sample count the hardware write may report
MaxWritten == 2
\* number of messages on a channel handed to the status await
MaxChan == 3
\* number of messages a producer adds while an await is running
MaxLate == 1
\* longest waveform handed to the dual-channel encoding
MaxWaveLen == 4
\* number of lines the serial device sends
MaxStream == 2
\* number of commands the parent puts on the trigger worker's in_queue
MaxTrigCmds == 2
\* last reading of the trigger worker's wall clock
MaxTime == 6
\* number of trials of an experiment
MaxTrials == 2

\* ------------------------------------------------------ program constants
\* start_end_blip_voltage = 2.5 V; samples are counted in tenths of a volt
BlipVoltage == 25
\* the lockout of 0.1 s; the wall clock of the trigger worker counts 0.1 s
Lockout == 1

\* ----------------------------------------------------------- Python values
PyVal(t, shape, data, b, s, n) ==
    [type |-> t, shape |-> shape, data |-> data, b |-> b, s |-> s, n |-> n]

None == PyVal("NoneType", <<>>, <<>>, FALSE, "", 0)

PyBool(b) == PyVal("bool", <<>>, <<>>, b, "", 0)

PyStr(s) == PyVal("str", <<>>, <<>>, FALSE, s, 0)

PyInt(n) == PyVal("int", <<>>, <<>>, FALSE, "", n)

PyFloat(n) == PyVal("float", <<>>, <<>>, FALSE, "", n)

\* numpy array: shape tuple and the samples in row-major order
NdArray(shape, data) == PyVal("ndarray", shape, data, FALSE, "", 0)

\* the waveforms the parent process sends (1-D, and 2-D with two rows)
Waveforms ==
    { NdArray(<<2>>, <<1, 0>>),
      NdArray(<<2, 1>>, <<1, 0>>) }

\* an array of a shape that is no waveform (three axes)
Malformed == {NdArray(<<1, 1, 1>>, <<1>>)}

\* everything the parent process may put on the parameter queue
Commands ==
    Waveforms \cup Malformed \cup
    {PyBool(TRUE), PyBool(FALSE), PyStr("STOP"), PyStr("GO"), PyInt(5)}

\* a status message: a dict with a single key
Msg(key, val) == [key |-> key, val |-> val]

\* ------------------------------------------------------------------- state
VARIABLES
    param_queue,    \* GVSHandler.param_queue: commands not yet consumed
    status_queue,   \* GVSHandler.status_queue: status messages not yet taken
    logging_queue,  \* GVSHandler.logging_queue: log records of the worker
    stimulus,       \* GVSHandler.stimulus
    pc,             \* position of the worker process
    clock,          \* wall clock read by time.time()
    sent,           \* history: every command put on the parameter queue
    history,        \* history: status puts and hardware calls of the worker
    chan,           \* _check_gvs_status: from_queue
    key,            \* _check_gvs_status: key
    blocking,       \* _check_gvs_status: blocking
    apc,            \* _check_gvs_status: position ("call", "returned")
    result,         \* _check_gvs_status: returned value
    arrived,        \* history: every message that arrived on chan
    removed,        \* history: every message the await took off chan
    gvs_wave,       \* _analog_feedback_loop: the caller's array (its samples)
    stacked,        \* _analog_feedback_loop: the returned rows
    fpc,            \* _analog_feedback_loop: position
    wave_in,        \* history: the samples of the array when it was passed
    in_queue,       \* ArduinoHandler.in_queue: commands not yet consumed
    return_queue,   \* ArduinoHandler.return_queue: everything put on it
    get_trigger,    \* ArduinoHandler.run: get_trigger
    trigger_time,   \* ArduinoHandler.trigger_time
    serial_in,      \* ArduinoConnect.serial_in ("none", "open", "closed")
    serial,         \* lines the serial device sends, not yet read
    now,            \* wall clock read by time.time() in the trigger worker
    tpc,            \* position of the trigger worker
    reads,          \* history: every line read, its time, whether latched
    in_sent,        \* history: every command put on in_queue
    epc,            \* WaveExp: position of the main process
    n_trials,       \* WaveExp.n_trials
    trial_nr,       \* WaveExp.trial_nr
    gvs_start,      \* WaveExp.run: gvs_start
    lpc,            \* Listener: position ("run", "done")
    log_read,       \* Listener: number of records taken off the log queue
    elog,           \* history: sends, receipts and joins of the main process
    edropped        \* history: status messages the awaits passed over

workerVars ==
    <<param_queue, status_queue, logging_queue, stimulus, pc, clock, sent,
      history>>

awaitVars == <<chan, key, blocking, apc, result, arrived, removed>>

blipVars == <<gvs_wave, stacked, fpc, wave_in>>

trigVars ==
    <<in_queue, return_queue, get_trigger, trigger_time, serial_in, serial,
      now, tpc, reads, in_sent>>

expVars ==
    <<epc, n_trials, trial_nr, gvs_start, lpc, log_read, elog, edropped>>

vars == <<workerVars, awaitVars, blipVars, trigVars, expVars>>

\* what the steps of one component leave alone
exceptWorker == <<awaitVars, blipVars, trigVars, expVars>>

exceptAwait == <<workerVars, blipVars, trigVars, expVars>>

exceptBlip == <<workerVars, awaitVars, trigVars, expVars>>

exceptTrig == <<workerVars, awaitVars, blipVars, expVars>>

\* the main process shares the queues with the stimulus worker
exceptExp == <<stimulus, pc, clock, history, awaitVars, blipVars, trigVars>>

\* ----------------------------------------------------------------- helpers
\* number of commands the worker has taken off the parameter queue
Consumed == Len(sent) - Len(param_queue)

\* one observable effect of the worker: "put" (status_queue.put), "call",
\* "ret" and "raise" (a call into the GVS object, its return, its exception)
Event(ev, k, v) == [ev |-> ev, key |-> k, val |-> v, cmd |-> 0]

\* the same events, stamped with the index of the command being served
Stamp(evs, c) ==
    [i \in 1..Len(evs) |-> [evs[i] EXCEPT !.cmd = c]]

IsPut(e) == e.ev = "put"

\* the status messages among a sequence of events, in order
StatusOf(evs) ==
    LET puts == SelectSeq(evs, IsPut)
    IN  [i \in 1..Len(puts) |-> Msg(puts[i].key, puts[i].val)]

\* the worker performs evs, in order, while serving command number c
Emit(evs, c) ==
    /\ history' = history \o Stamp(evs, c)
    /\ status_queue' = status_queue \o StatusOf(evs)

\* a record handed to the logging queue by a logger
LogRec(name, level, text, n) ==
    [name |-> name, level |-> level, text |-> text, n |-> n]

\* ------------------------------------------------ GVS object (hardware side)
\* results of GVS.connect, GVS.quit and GVS.write_to_channel
GvsConnectResults == BOOLEAN

GvsQuitResults == BOOLEAN

GvsWriteResults == 0..MaxWritten

\* --------------------------------------------------------------- GVSHandler
\* mutant: any string stops the worker
IsStopAnyStr(data) == data.type = "str"

IsStop(data) == data.type = "str" /\ data.s = "STOP"

IsNdarray(data) == data.type = "ndarray"

\* mutant: any boolean triggers the send
IsTriggerAnyBool(data) == data.type = "bool"

IsTrigger(data) == data.type = "bool" /\ data.b = TRUE

\* value of stim_created after self.stimulus = data
StimCreated(stim) == stim # None

\* mutant: an armed stimulus is not replaced
ArmedWithUnlessArmed(data) == IF stimulus = None THEN data ELSE stimulus

\* self.stimulus after an array arrived
ArmedWith(data) == data

\* np.shape(stimulus)[1] raises IndexError for an array of less than 2 axes
NSamplesRaises(stim) == Len(stim.shape) = 0

\* mutant: len(stimulus) whatever the number of axes
NSamplesLen(stim) == PyInt(stim.shape[1])

\* n_samples of the stimulus that was written
NSamples(stim) ==
    IF Len(stim.shape) = 1 THEN PyInt(stim.shape[1]) ELSE PyInt(stim.shape[2])

\* mutant: n_samples starts at 0 like samps_written
StimSentNoneIsZero(n_samples, samps_written) ==
    (IF n_samples = None THEN PyInt(0) ELSE n_samples) = samps_written

\* value of stim_sent
StimSent(n_samples, samps_written) == n_samples = samps_written

\* mutant: the stimulus is not deleted after sending
StimulusKept(stim) == stim

\* self.stimulus after the write returned
StimulusAfterWrite(stim) == None

\* mutant: the onset time is reported after the write was started
SendEventsWriteFirst(stim, t) ==
    <<Event("call", "write_to_channel", stim),
      Event("put", "t_start_gvs", PyFloat(t))>>

\* what _send_stimulus does before the hardware write returns
SendEvents(stim, t) ==
    <<Event("put", "t_start_gvs", PyFloat(t)),
      Event("call", "write_to_channel", stim)>>

\* what the worker does on STOP
StopEvents(quit_gvs) ==
    <<Event("call", "quit", None),
      Event("ret", "quit", PyBool(quit_gvs)),
      Event("put", "quit", PyBool(quit_gvs))>>

\* mutant: connected is reported as True without looking at the result
ConnectEventsAlwaysTrue(connected) ==
    <<Event("call", "connect", None),
      Event("ret", "connect", PyBool(connected)),
      Event("put", "connected", PyBool(TRUE))>>

\* what __init__ does before entering run()
ConnectEvents(connected) ==
    <<Event("call", "connect", None),
      Event("ret", "connect", PyBool(connected)),
      Event("put", "connected", PyBool(connected))>>

\* mutant: a failed connect ends the worker
PcAfterInitFatal(connected) == IF connected THEN "run" ELSE "crashed"

\* __init__ ends by calling self.run(), whatever connect returned
PcAfterInit(connected) == "run"

\* __init__: connect to the NIDAQ, report, enter the event loop
GVSHandlerInit(connected) ==
    /\ pc = "init"
    /\ Emit(ConnectEvents(connected), 0)
    /\ logging_queue' = Append(logging_queue,
            LogRec("GVSHandler", "INFO",
                   IF connected THEN "NIDAQ connection established"
                                ELSE "NIDAQ connection failed", 0))
    /\ pc' = PcAfterInit(connected)
    /\ UNCHANGED <<param_queue, stimulus, clock, sent, exceptWorker>>

\* mutant: the STOP branch drops the stimulus
StimulusDroppedAtStop(stim) == None

\* run, STOP branch: self.stimulus is not assigned
StimulusAfterStop(stim) == stim

\* run: data is "STOP"
RunStop(quit_gvs) ==
    /\ pc = "run"
    /\ param_queue # <<>>
    /\ IsStop(Head(param_queue))
    /\ param_queue' = Tail(param_queue)
    /\ Emit(StopEvents(quit_gvs), Consumed + 1)
    /\ stimulus' = StimulusAfterStop(stimulus)
    /\ pc' = "done"
    /\ UNCHANGED <<logging_queue, clock, sent, exceptWorker>>

\* run: data is a numpy array
RunArray ==
    /\ pc = "run"
    /\ param_queue # <<>>
    /\ ~IsStop(Head(param_queue))
    /\ IsNdarray(Head(param_queue))
    /\ param_queue' = Tail(param_queue)
    /\ stimulus' = ArmedWith(Head(param_queue))
    /\ Emit(<<Event("put", "stim_created", PyBool(StimCreated(stimulus')))>>,
            Consumed + 1)
    /\ UNCHANGED <<logging_queue, pc, clock, sent, exceptWorker>>

\* run: data is True; _send_stimulus up to the blocking hardware write
RunTrigger ==
    /\ pc = "run"
    /\ param_queue # <<>>
    /\ ~IsStop(Head(param_queue))
    /\ ~IsNdarray(Head(param_queue))
    /\ IsTrigger(Head(param_queue))
    /\ param_queue' = Tail(param_queue)
    /\ IF stimulus # None
       THEN /\ Emit(SendEvents(stimulus, clock), Consumed + 1)
            /\ clock' = clock + 1
            /\ pc' = "write"
       ELSE /\ Emit(<<Event("put", "stim_sent",
                            PyBool(StimSent(None, PyInt(0))))>>, Consumed + 1)
            /\ UNCHANGED <<clock, pc>>
    /\ UNCHANGED <<logging_queue, stimulus, sent, exceptWorker>>

\* _send_stimulus: the hardware write returned samps_written
WriteReturns(samps_written) ==
    /\ pc = "write"
    /\ IF NSamplesRaises(stimulus)
       THEN /\ Emit(<<Event("ret", "write_to_channel", PyInt(samps_written))>>,
                    Consumed)
            /\ pc' = "crashed"
            /\ UNCHANGED <<logging_queue, stimulus>>
       ELSE /\ Emit(<<Event("ret", "write_to_channel", PyInt(samps_written)),
                      Event("put", "stim_sent",
                            PyBool(StimSent(NSamples(stimulus),
                                            PyInt(samps_written))))>>,
                    Consumed)
            /\ stimulus' = StimulusAfterWrite(stimulus)
            /\ logging_queue' = Append(logging_queue,
                    LogRec("GVSHandler", "INFO", "GVS: samples written",
                           samps_written))
            /\ pc' = "run"
    /\ UNCHANGED <<param_queue, clock, sent, exceptWorker>>

\* _send_stimulus: the hardware write raised AttributeError
WriteAttributeError ==
    /\ pc = "write"
    /\ Emit(<<Event("raise", "write_to_channel", PyStr("AttributeError")),
              Event("put", "stim_sent", PyBool(StimSent(None, PyInt(0))))>>,
            Consumed)
    /\ logging_queue' = logging_queue \o
            <<LogRec("GVSHandler", "ERROR",
                     "Error: tried to send invalid stimulus to NIDAQ", 0),
              LogRec("GVSHandler", "INFO", "GVS: samples written", 0)>>
    /\ pc' = "run"
    /\ UNCHANGED <<param_queue, stimulus, clock, sent, exceptWorker>>

\* _send_stimulus: the hardware write raised an exception that is not caught
WriteOtherError ==
    /\ pc = "write"
    /\ Emit(<<Event("raise", "write_to_channel", PyStr("Exception"))>>,
            Consumed)
    /\ pc' = "crashed"
    /\ UNCHANGED <<param_queue, logging_queue, stimulus, clock, sent,
                   exceptWorker>>

\* run: any other input
RunOther ==
    /\ pc = "run"
    /\ param_queue # <<>>
    /\ ~IsStop(Head(param_queue))
    /\ ~IsNdarray(Head(param_queue))
    /\ ~IsTrigger(Head(param_queue))
    /\ param_queue' = Tail(param_queue)
    /\ logging_queue' = Append(logging_queue,
            LogRec("GVSHandler", "ERROR",
                   "Incorrect input to GVSHandler parameter queue", 0))
    /\ Emit(<<Event("put", "stim_created", PyBool(FALSE))>>, Consumed + 1)
    /\ UNCHANGED <<stimulus, pc, clock, sent, exceptWorker>>

\* ------------------------------------------ parent process (queue endpoints)
\* param_queue.put(cmd)
ParentPut(cmd) ==
    /\ Len(sent) < MaxCmds
    /\ param_queue' = Append(param_queue, cmd)
    /\ sent' = Append(sent, cmd)
    /\ UNCHANGED <<status_queue, logging_queue, stimulus, pc, clock, history,
                   exceptWorker>>

\* status_queue.get()
ParentGet ==
    /\ status_queue # <<>>
    /\ status_queue' = Tail(status_queue)
    /\ UNCHANGED <<param_queue, logging_queue, stimulus, pc, clock, sent,
                   history, exceptWorker>>

\* ------------------------------------------- WaveExp._check_gvs_status
\* the keys of the status messages of the worker
StatusKeys == {"connected", "stim_created", "t_start_gvs", "stim_sent", "quit"}

\* messages on the channel handed to the await
ChanMsgs ==
    { Msg("stim_created", PyBool(TRUE)), Msg("stim_created", PyBool(FALSE)),
      Msg("t_start_gvs", PyFloat(0)),
      Msg("stim_sent", PyBool(TRUE)), Msg("stim_sent", PyBool(FALSE)) }

\* the keys an await is called with
AwaitKeys == {"stim_created", "t_start_gvs", "stim_sent", "quit"}

\* all sequences over S of length at most n
RECURSIVE SeqsUpTo(_, _)
SeqsUpTo(S, n) ==
    IF n = 0 THEN {<<>>}
    ELSE LET shorter == SeqsUpTo(S, n - 1)
         IN  shorter \cup {Append(q, m) : q \in {r \in shorter : Len(r) = n - 1},
                                          m \in S}

\* mutant: the first message is taken for the awaited one
KeyInAny(k, status) == TRUE

\* key in status
KeyIn(k, status) == status.key = k

\* the queue after from_queue.get() returned its first message
AfterGet(q) == Tail(q)

\* mutant: a non-blocking call keeps looping like a blocking one
AlwaysLoopsOn(b) == FALSE

\* "if not blocking: return None" at the end of a pass of the loop
ReturnsAfterMiss(b) == ~b

\* one pass of the while loop in which from_queue.get() returns a message
CheckGet ==
    /\ apc = "call"
    /\ chan # <<>>
    /\ chan' = AfterGet(chan)
    /\ removed' = Append(removed, Head(chan))
    /\ IF KeyIn(key, Head(chan))
       THEN /\ result' = Head(chan).val
            /\ apc' = "returned"
       ELSE IF ReturnsAfterMiss(blocking)
            THEN /\ result' = None
                 /\ apc' = "returned"
            ELSE UNCHANGED <<result, apc>>
    /\ UNCHANGED <<key, blocking, arrived, exceptAwait>>

\* from_queue.get(block=False) raises Empty
CheckEmpty ==
    /\ apc = "call"
    /\ chan = <<>>
    /\ ~blocking
    /\ result' = None
    /\ apc' = "returned"
    /\ UNCHANGED <<chan, key, blocking, arrived, removed, exceptAwait>>

\* a producer puts a message on the channel
ChanPut(m) ==
    /\ Len(arrived) < MaxChan + MaxLate
    /\ chan' = Append(chan, m)
    /\ arrived' = Append(arrived, m)
    /\ UNCHANGED <<key, blocking, apc, result, removed, exceptAwait>>

\* ------------------------------------------------ ArduinoHandler (run)
\* what ArduinoConnect.connect returns: None (no device), True, False
ArduinoConnectResults == {None, PyBool(TRUE), PyBool(FALSE)}

\* the lines readline returns: numbers as text, and a non-numeric line
Lines == {PyInt(0), PyInt(634), PyInt(635), PyStr("x")}

\* the stream of the trigger-code scenario
ExampleStream ==
    <<PyInt(0), PyInt(0), PyInt(634), PyInt(634), PyInt(634), PyInt(0),
      PyInt(0), PyInt(635), PyInt(0)>>

\* what the parent may put on in_queue
TrigCommands == {"STOP", "GO"}

\* a trigger event on return_queue: the bare timestamp, no key
TriggerEvent(t) == Msg("", PyFloat(t))

\* bool(v) of Python for None and for numbers
Truthy(v) == v.type # "NoneType" /\ v.n # 0

\* mutant: any number read is a trigger code
RecognizedAny(number_read) == TRUE

\* number_read in [634, 635]
Recognized(number_read) == number_read \in {634, 635}

\* mutant: a latch leaves the worker searching
GetTriggerStaysOn(latch, old) == old

\* get_trigger after a sample was read
GetTriggerAfterRead(latch, old) == IF latch THEN FALSE ELSE old

\* mutant: a STOP is only taken off the queue
TpcAfterStopLoops(handle) == "body"

\* where the worker is after arduino.quit(): serial_in.close() raises
\* AttributeError when no port was ever opened
TpcAfterStop(handle) == IF handle = "none" THEN "crashed" ELSE "done"

\* __init__: connect, report it, enter run()
ArduinoHandlerInit(connected) ==
    /\ tpc = "init"
    /\ serial_in' = IF connected = None THEN "none" ELSE "open"
    /\ return_queue' = Append(return_queue,
                              Msg("connected", PyBool(connected = PyBool(TRUE))))
    /\ get_trigger' = TRUE
    /\ tpc' = "poll"
    /\ UNCHANGED <<in_queue, trigger_time, serial, now, reads, in_sent,
                   exceptTrig>>

\* in_queue.get(block=False) raises Empty
TrigPollEmpty ==
    /\ tpc = "poll"
    /\ in_queue = <<>>
    /\ tpc' = "body"
    /\ UNCHANGED <<in_queue, return_queue, get_trigger, trigger_time,
                   serial_in, serial, now, reads, in_sent, exceptTrig>>

\* in_queue.get(block=False) returns "STOP": arduino.quit(), break
TrigPollStop ==
    /\ tpc = "poll"
    /\ in_queue # <<>>
    /\ Head(in_queue) = "STOP"
    /\ in_queue' = Tail(in_queue)
    /\ serial_in' = IF serial_in = "none" THEN "none" ELSE "closed"
    /\ tpc' = TpcAfterStop(serial_in)
    /\ UNCHANGED <<return_queue, get_trigger, trigger_time, serial, now,
                   reads, in_sent, exceptTrig>>

\* in_queue.get(block=False) returns something else
TrigPollOther ==
    /\ tpc = "poll"
    /\ in_queue # <<>>
    /\ Head(in_queue) # "STOP"
    /\ in_queue' = Tail(in_queue)
    /\ tpc' = "body"
    /\ UNCHANGED <<return_queue, get_trigger, trigger_time, serial_in,
                   serial, now, reads, in_sent, exceptTrig>>

\* read_voltage returns (number, time); the sample is latched or passed over
TrigReadNumber ==
    /\ tpc = "body"
    /\ get_trigger
    /\ serial_in = "open"
    /\ serial # <<>>
    /\ Head(serial).type = "int"
    /\ LET number_read == Head(serial).n
           timestamp == now
           latch == Recognized(number_read)
       IN  /\ trigger_time' = IF latch THEN PyFloat(timestamp)
                                       ELSE trigger_time
           /\ get_trigger' = GetTriggerAfterRead(latch, get_trigger)
           /\ return_queue' = IF latch
                              THEN Append(return_queue, TriggerEvent(timestamp))
                              ELSE return_queue
           /\ reads' = Append(reads, [val |-> Head(serial), ts |-> timestamp,
                                      latched |-> latch])
    /\ serial' = Tail(serial)
    /\ tpc' = "poll"
    /\ UNCHANGED <<in_queue, serial_in, now, in_sent, exceptTrig>>

\* read_voltage: int() of a non-numeric line raises ValueError
TrigReadGarbage ==
    /\ tpc = "body"
    /\ get_trigger
    /\ serial_in = "open"
    /\ serial # <<>>
    /\ Head(serial).type # "int"
    /\ serial' = Tail(serial)
    /\ reads' = Append(reads, [val |-> Head(serial), ts |-> now,
                               latched |-> FALSE])
    /\ tpc' = "crashed"
    /\ UNCHANGED <<in_queue, return_queue, get_trigger, trigger_time,
                   serial_in, now, in_sent, exceptTrig>>

\* read_voltage: readline times out before the next line is there and
\* returns nothing; read_voltage returns None
TrigReadTimeout ==
    /\ tpc = "body"
    /\ get_trigger
    /\ serial_in = "open"
    /\ tpc' = "poll"
    /\ UNCHANGED <<in_queue, return_queue, get_trigger, trigger_time,
                   serial_in, serial, now, reads, in_sent, exceptTrig>>

\* read_voltage: serial_in is None, readline raises AttributeError
TrigReadNoHandle ==
    /\ tpc = "body"
    /\ get_trigger
    /\ serial_in = "none"
    /\ tpc' = "crashed"
    /\ UNCHANGED <<in_queue, return_queue, get_trigger, trigger_time,
                   serial_in, serial, now, reads, in_sent, exceptTrig>>

\* mutant: the search is taken up again when just 0.1 s have passed
LockoutOverAtOnce(t, time) == Truthy(t) /\ time - t.n >= Lockout

\* self.trigger_time and ((time.time() - self.trigger_time) > 0.1)
LockoutOver(t, time) == Truthy(t) /\ time - t.n > Lockout

\* not searching: search again once the lockout is over
TrigLockout ==
    /\ tpc = "body"
    /\ ~get_trigger
    /\ IF LockoutOver(trigger_time, now)
       THEN get_trigger' = TRUE /\ trigger_time' = None
       ELSE UNCHANGED <<get_trigger, trigger_time>>
    /\ tpc' = "poll"
    /\ UNCHANGED <<in_queue, return_queue, serial_in, serial, now, reads,
                   in_sent, exceptTrig>>

\* time passes while the trigger worker runs
TrigTick ==
    /\ tpc \in {"poll", "body"}
    /\ now < MaxTime
    /\ now' = now + 1
    /\ UNCHANGED <<in_queue, return_queue, get_trigger, trigger_time,
                   serial_in, serial, tpc, reads, in_sent, exceptTrig>>

\* the parent puts a command on in_queue
TrigParentPut(cmd) ==
    /\ tpc # "idle"
    /\ Len(in_sent) < MaxTrigCmds
    /\ in_queue' = Append(in_queue, cmd)
    /\ in_sent' = Append(in_sent, cmd)
    /\ UNCHANGED <<return_queue, get_trigger, trigger_time, serial_in,
                   serial, now, tpc, reads, exceptTrig>>

\* no trigger worker
TrigIdle ==
    /\ in_queue = <<>>
    /\ return_queue = <<>>
    /\ get_trigger = FALSE
    /\ trigger_time = None
    /\ serial_in = "none"
    /\ serial = <<>>
    /\ now = 1
    /\ tpc = "idle"
    /\ reads = <<>>
    /\ in_sent = <<>>

\* the trigger worker's process has been started; run() has not bound
\* get_trigger yet
TrigStarted ==
    /\ in_queue = <<>>
    /\ return_queue = <<>>
    /\ get_trigger = FALSE
    /\ trigger_time = None
    /\ serial_in = "none"
    /\ serial \in SeqsUpTo(Lines, MaxStream) \cup {ExampleStream}
    /\ now = 1
    /\ tpc = "init"
    /\ reads = <<>>
    /\ in_sent = <<>>

\* ------------------------------------------- WaveExp (run, quit_exp)
\* the sine wave of a trial, as make_waves returns it (1-D)
TrialWave == NdArray(<<2>>, <<1, 0>>)

\* the None that ends the Listener
LogSentinel == LogRec("", "", "None", 0)

\* a record of the main process's logger
MainLog(level, text) == LogRec("main", level, text, 0)

\* something the main process did: a send, a receipt, a join
Did(ev, what) == [ev |-> ev, what |-> what]

\* head of "for trial in range(self.n_trials)", then self.quit_exp()
LoopHead(done, n) == IF done < n THEN "init_trial" ELSE "quit_exp"

\* mutant: init_trial does not wait for stim_created
ThenNoWaitCreated(at) ==
    CASE at = "init_trial" -> "wait_start"
      [] at = "await_created" -> "wait_start"
      [] at = "put_trigger" -> "await_t_start"
      [] at = "await_t_start" -> "show_visual"
      [] at = "show_visual" -> "await_sent"

\* the statements of init_trial and run, in program order
Then(at) ==
    CASE at = "init_trial" -> "await_created"
      [] at = "await_created" -> "wait_start"
      [] at = "put_trigger" -> "await_t_start"
      [] at = "await_t_start" -> "show_visual"
      [] at = "show_visual" -> "await_sent"

\* mutant: the log sentinel is sent before the worker is joined
QuitThenSentinelFirst(at) ==
    CASE at = "quit_exp" -> "await_quit"
      [] at = "await_quit" -> "put_sentinel"
      [] at = "put_sentinel" -> "join_gvs"
      [] at = "join_gvs" -> "join_listener"
      [] at = "join_listener" -> "exited"

\* the statements of quit_exp, in program order
QuitThen(at) ==
    CASE at = "quit_exp" -> "await_quit"
      [] at = "await_quit" -> "join_gvs"
      [] at = "join_gvs" -> "put_sentinel"
      [] at = "put_sentinel" -> "join_listener"
      [] at = "join_listener" -> "exited"

\* one pass of the loop of _check_gvs_status(k) on the status queue
\* (blocking): get() returns the first message
ExpGet ==
    /\ status_queue # <<>>
    /\ status_queue' = AfterGet(status_queue)

\* the pass of ExpGet does not find k: the message is gone, the loop goes on
ExpMiss ==
    /\ edropped' = Append(edropped, Head(status_queue))
    /\ UNCHANGED <<param_queue, logging_queue, sent, epc, n_trials, trial_nr,
                   gvs_start, lpc, log_read, elog, exceptExp>>

\* setup: self._check_gvs_status("connected"), then run()
ExpAwaitConnected ==
    /\ epc = "setup"
    /\ ExpGet
    /\ IF KeyIn("connected", Head(status_queue))
       THEN /\ elog' = Append(elog, Did("recv", Head(status_queue).key))
            /\ epc' = LoopHead(0, n_trials)
            /\ UNCHANGED <<param_queue, logging_queue, sent, n_trials,
                           trial_nr, gvs_start, lpc, log_read, edropped,
                           exceptExp>>
       ELSE ExpMiss

\* init_trial: self.param_queue.put(self.gvs_wave)
ExpInitTrial ==
    /\ epc = "init_trial"
    /\ param_queue' = Append(param_queue, TrialWave)
    /\ sent' = Append(sent, TrialWave)
    /\ logging_queue' = logging_queue \o
            <<MainLog("DEBUG", "initialising trial"),
              MainLog("DEBUG", "wave sent to GVS handler")>>
    /\ elog' = Append(elog, Did("send", "Waveform"))
    /\ epc' = Then(epc)
    /\ UNCHANGED <<status_queue, n_trials, trial_nr, gvs_start, lpc,
                   log_read, edropped, exceptExp>>

\* init_trial: self._check_gvs_status("stim_created"); run: trial_nr += 1
ExpAwaitCreated ==
    /\ epc = "await_created"
    /\ ExpGet
    /\ IF KeyIn("stim_created", Head(status_queue))
       THEN /\ elog' = Append(elog, Did("recv", Head(status_queue).key))
            /\ logging_queue' = Append(logging_queue,
                    IF Head(status_queue).val.b
                    THEN MainLog("INFO", "gvs current profile created")
                    ELSE MainLog("WARNING", "current profile not created"))
            /\ trial_nr' = trial_nr + 1
            /\ epc' = Then(epc)
            /\ UNCHANGED <<param_queue, sent, n_trials, gvs_start, lpc,
                           log_read, edropped, exceptExp>>
       ELSE ExpMiss

\* wait_start: space starts the trial, escape calls quit_exp
ExpWaitStart(start_key) ==
    /\ epc = "wait_start"
    /\ epc' = IF start_key = "space" THEN "put_trigger" ELSE "quit_exp"
    /\ UNCHANGED <<param_queue, status_queue, logging_queue, sent, n_trials,
                   trial_nr, gvs_start, lpc, log_read, elog, edropped,
                   exceptExp>>

\* run: self.param_queue.put(True)
ExpPutTrigger ==
    /\ epc = "put_trigger"
    /\ param_queue' = Append(param_queue, PyBool(TRUE))
    /\ sent' = Append(sent, PyBool(TRUE))
    /\ elog' = Append(elog, Did("send", "Trigger"))
    /\ epc' = Then(epc)
    /\ UNCHANGED <<status_queue, logging_queue, n_trials, trial_nr,
                   gvs_start, lpc, log_read, edropped, exceptExp>>

\* run: gvs_start = self._check_gvs_status("t_start_gvs")
ExpAwaitStart ==
    /\ epc = "await_t_start"
    /\ ExpGet
    /\ IF KeyIn("t_start_gvs", Head(status_queue))
       THEN /\ elog' = Append(elog, Did("recv", Head(status_queue).key))
            /\ gvs_start' = Head(status_queue).val
            /\ epc' = Then(epc)
            /\ UNCHANGED <<param_queue, logging_queue, sent, n_trials,
                           trial_nr, lpc, log_read, edropped, exceptExp>>
       ELSE ExpMiss

\* run: the onset delay and show_visual; escape in check_response calls
\* quit_exp, otherwise the frames end and the times are logged
ExpShowVisual(escape) ==
    /\ epc = "show_visual"
    /\ IF escape
       THEN /\ epc' = "quit_exp"
            /\ UNCHANGED logging_queue
       ELSE /\ epc' = Then(epc)
            /\ logging_queue' = logging_queue \o
                    <<MainLog("DEBUG", "start visual stimulus"),
                      MainLog("DEBUG", "stop visual stimulus"),
                      MainLog("INFO", "visual stimulus duration")>>
    /\ UNCHANGED <<param_queue, status_queue, sent, n_trials, trial_nr,
                   gvs_start, lpc, log_read, elog, edropped, exceptExp>>

\* run: gvs_end = self._check_gvs_status("stim_sent"), next trial
ExpAwaitSent ==
    /\ epc = "await_sent"
    /\ ExpGet
    /\ IF KeyIn("stim_sent", Head(status_queue))
       THEN /\ elog' = Append(elog, Did("recv", Head(status_queue).key))
            /\ epc' = LoopHead(trial_nr, n_trials)
            /\ UNCHANGED <<param_queue, logging_queue, sent, n_trials,
                           trial_nr, gvs_start, lpc, log_read, edropped,
                           exceptExp>>
       ELSE ExpMiss

\* quit_exp: self.param_queue.put("STOP")
ExpQuitPut ==
    /\ epc = "quit_exp"
    /\ logging_queue' = Append(logging_queue, MainLog("INFO", "quitting"))
    /\ param_queue' = Append(param_queue, PyStr("STOP"))
    /\ sent' = Append(sent, PyStr("STOP"))
    /\ elog' = Append(elog, Did("send", "Stop"))
    /\ epc' = QuitThen(epc)
    /\ UNCHANGED <<status_queue, n_trials, trial_nr, gvs_start, lpc,
                   log_read, edropped, exceptExp>>

\* quit_exp: while True: if self._check_gvs_status("quit"): break
ExpAwaitQuit ==
    /\ epc = "await_quit"
    /\ ExpGet
    /\ IF KeyIn("quit", Head(status_queue))
       THEN /\ elog' = Append(elog, Did("recv", Head(status_queue).key))
            /\ epc' = IF Head(status_queue).val.b THEN QuitThen(epc) ELSE epc
            /\ UNCHANGED <<param_queue, logging_queue, sent, n_trials,
                           trial_nr, gvs_start, lpc, log_read, edropped,
                           exceptExp>>
       ELSE ExpMiss

\* quit_exp: self.gvs_process.join() returns once the worker has ended
ExpJoinGvs ==
    /\ epc = "join_gvs"
    /\ pc \in {"done", "crashed"}
    /\ elog' = Append(elog, Did("join", "gvs_process"))
    /\ epc' = QuitThen(epc)
    /\ UNCHANGED <<param_queue, status_queue, logging_queue, sent, n_trials,
                   trial_nr, gvs_start, lpc, log_read, edropped, exceptExp>>

\* quit_exp: self.log_queue.put(None)
ExpPutSentinel ==
    /\ epc = "put_sentinel"
    /\ logging_queue' = Append(logging_queue, LogSentinel)
    /\ elog' = Append(elog, Did("send", "None"))
    /\ epc' = QuitThen(epc)
    /\ UNCHANGED <<param_queue, status_queue, sent, n_trials, trial_nr,
                   gvs_start, lpc, log_read, edropped, exceptExp>>

\* quit_exp: self.log_listener.join() returns once the Listener has ended;
\* then the window is closed and core.quit() ends the process
ExpJoinListener ==
    /\ epc = "join_listener"
    /\ lpc = "done"
    /\ elog' = Append(elog, Did("join", "log_listener"))
    /\ epc' = QuitThen(epc)
    /\ UNCHANGED <<param_queue, status_queue, logging_queue, sent, n_trials,
                   trial_nr, gvs_start, lpc, log_read, edropped, exceptExp>>

\* Listener: takes the records off the log queue in order and writes them,
\* and ends with the None. Its passes before the None touch nothing that
\* another process reads; they are taken together with the last one.
ListenerDrain ==
    /\ lpc = "run"
    /\ \E i \in DOMAIN logging_queue :
          /\ logging_queue[i] = LogSentinel
          /\ \A j \in 1..(i - 1) : logging_queue[j] # LogSentinel
          /\ log_read' = i
    /\ lpc' = "done"
    /\ UNCHANGED <<param_queue, status_queue, logging_queue, sent, epc,
                   n_trials, trial_nr, gvs_start, elog, edropped, exceptExp>>

\* no main process
ExpIdle ==
    /\ epc = "idle"
    /\ n_trials = 0
    /\ trial_nr = 0
    /\ gvs_start = None
    /\ lpc = "idle"
    /\ log_read = 0
    /\ elog = <<>>
    /\ edropped = <<>>

\* setup has started the Listener and the worker process
ExpStarted ==
    /\ epc = "setup"
    /\ n_trials \in 0..MaxTrials
    /\ trial_nr = 0
    /\ gvs_start = None
    /\ lpc = "run"
    /\ log_read = 0
    /\ elog = <<>>
    /\ edropped = <<>>

\* ------------------------------------- GVSHandler._analog_feedback_loop
\* the sample values of the waveforms, in tenths of a volt
Samples == {-10, 0, 10}

\* a[i] = v with Python's index i (negative: counted from the end)
SetItem(a, i, v) ==
    [a EXCEPT ![IF i < 0 THEN Len(a) + i + 1 ELSE i + 1] = v]

\* gvs_wave after the writes to duplicate_wave = gvs_wave[:]: a basic slice of
\* a numpy array is a view, the writes go to the samples of gvs_wave
SliceViewShares(a, written) == written

\* duplicate_wave after the two blips were written
Blipped(a, blip) == SetItem(SetItem(a, 0, blip), -1, -blip)

\* np.append(a, 0): a new array
NpAppendZero(a) == Append(a, 0)

\* the call returns the stacked rows
FeedbackLoopReturns ==
    /\ fpc = "call"
    /\ Len(gvs_wave) > 0
    /\ LET duplicate_wave == Blipped(gvs_wave, BlipVoltage)
           shared == SliceViewShares(gvs_wave, duplicate_wave)
       IN  /\ gvs_wave' = shared
           /\ stacked' = <<NpAppendZero(duplicate_wave), NpAppendZero(shared)>>
    /\ fpc' = "returned"
    /\ UNCHANGED <<wave_in, exceptBlip>>

\* duplicate_wave[0] raises IndexError on an empty array
FeedbackLoopRaises ==
    /\ fpc = "call"
    /\ Len(gvs_wave) = 0
    /\ fpc' = "raised"
    /\ UNCHANGED <<gvs_wave, stacked, wave_in, exceptBlip>>

\* _analog_feedback_loop is not running
BlipIdle ==
    /\ gvs_wave = <<>>
    /\ stacked = <<>>
    /\ fpc = "idle"
    /\ wave_in = <<>>

\* _analog_feedback_loop(gvs_wave) has just been called
BlipCalled ==
    /\ gvs_wave \in SeqsUpTo(Samples, MaxWaveLen)
    /\ stacked = <<>>
    /\ fpc = "call"
    /\ wave_in = gvs_wave

\* no await is running
AwaitIdle ==
    /\ chan = <<>>
    /\ key = ""
    /\ blocking = TRUE
    /\ apc = "idle"
    /\ result = None
    /\ arrived = <<>>
    /\ removed = <<>>

\* _check_gvs_status(key, chan, blocking) has just been called
AwaitCalled ==
    /\ chan \in SeqsUpTo(ChanMsgs, MaxChan)
    /\ key \in AwaitKeys
    /\ blocking \in BOOLEAN
    /\ apc = "call"
    /\ result = None
    /\ arrived = chan
    /\ removed = <<>>

WorkerInit ==
    /\ param_queue = <<>>
    /\ status_queue = <<>>
    /\ logging_queue = <<>>
    /\ stimulus = None
    /\ pc = "init"
    /\ clock = 0
    /\ sent = <<>>
    /\ history = <<>>

Init == WorkerInit /\ AwaitIdle /\ BlipIdle /\ TrigIdle /\ ExpIdle

InitAwait == WorkerInit /\ AwaitCalled /\ BlipIdle /\ TrigIdle /\ ExpIdle

NextAwait ==
    \/ CheckGet
    \/ CheckEmpty
    \/ \E m \in ChanMsgs : ChanPut(m)

SpecAwait == InitAwait /\ [][NextAwait]_vars

InitBlip == WorkerInit /\ AwaitIdle /\ BlipCalled /\ TrigIdle /\ ExpIdle

NextBlip ==
    \/ FeedbackLoopReturns
    \/ FeedbackLoopRaises

SpecBlip == InitBlip /\ [][NextBlip]_vars

InitTrig == WorkerInit /\ AwaitIdle /\ BlipIdle /\ TrigStarted /\ ExpIdle

NextTrig ==
    \/ \E connected \in ArduinoConnectResults : ArduinoHandlerInit(connected)
    \/ TrigPollEmpty
    \/ TrigPollStop
    \/ TrigPollOther
    \/ TrigReadNumber
    \/ TrigReadGarbage
    \/ TrigReadTimeout
    \/ TrigReadNoHandle
    \/ TrigLockout
    \/ TrigTick
    \/ \E cmd \in TrigCommands : TrigParentPut(cmd)

SpecTrig == InitTrig /\ [][NextTrig]_vars

InitExp == WorkerInit /\ AwaitIdle /\ BlipIdle /\ TrigIdle /\ ExpStarted

NextExp ==
    \/ \E connected \in GvsConnectResults : GVSHandlerInit(connected)
    \/ \E quit_gvs \in GvsQuitResults : RunStop(quit_gvs)
    \/ RunArray
    \/ RunTrigger
    \/ \E samps_written \in GvsWriteResults : WriteReturns(samps_written)
    \/ WriteAttributeError
    \/ WriteOtherError
    \/ ExpAwaitConnected
    \/ ExpInitTrial
    \/ ExpAwaitCreated
    \/ \E start_key \in {"space", "escape"} : ExpWaitStart(start_key)
    \/ ExpPutTrigger
    \/ ExpAwaitStart
    \/ \E escape \in BOOLEAN : ExpShowVisual(escape)
    \/ ExpAwaitSent
    \/ ExpQuitPut
    \/ ExpAwaitQuit
    \/ ExpJoinGvs
    \/ ExpPutSentinel
    \/ ExpJoinListener
    \/ ListenerDrain

SpecExp == InitExp /\ [][NextExp]_vars

Next ==
    \/ \E connected \in GvsConnectResults : GVSHandlerInit(connected)
    \/ \E quit_gvs \in GvsQuitResults : RunStop(quit_gvs)
    \/ RunArray
    \/ RunTrigger
    \/ \E samps_written \in GvsWriteResults : WriteReturns(samps_written)
    \/ WriteAttributeError
    \/ WriteOtherError
    \/ RunOther
    \/ \E cmd \in Commands : ParentPut(cmd)
    \/ ParentGet

Spec == Init /\ [][Next]_vars

\* the worker process is scheduled: a step it can take is eventually taken
WorkerStep ==
    \/ \E connected \in GvsConnectResults : GVSHandlerInit(connected)
    \/ \E quit_gvs \in GvsQuitResults : RunStop(quit_gvs)
    \/ RunArray
    \/ RunTrigger
    \/ \E samps_written \in GvsWriteResults : WriteReturns(samps_written)
    \/ WriteAttributeError
    \/ WriteOtherError
    \/ RunOther

SpecFair == Spec /\ WF_vars(WorkerStep)

\* the main process is scheduled: a step it can take is eventually taken
MainStep ==
    \/ ExpAwaitConnected
    \/ ExpInitTrial
    \/ ExpAwaitCreated
    \/ \E start_key \in {"space", "escape"} : ExpWaitStart(start_key)
    \/ ExpPutTrigger
    \/ ExpAwaitStart
    \/ \E escape \in BOOLEAN : ExpShowVisual(escape)
    \/ ExpAwaitSent
    \/ ExpQuitPut
    \/ ExpAwaitQuit
    \/ ExpJoinGvs
    \/ ExpPutSentinel
    \/ ExpJoinListener

\* the three processes are scheduled, and a hardware write comes to an end
SpecExpFair ==
    SpecExp /\ WF_vars(WorkerStep) /\ WF_vars(MainStep) /\ WF_vars(ListenerDrain)

\* ------------------------------------------------------ reading the history
Last(q) == q[Len(q)]

\* the events of the worker while it served command number c
EventsOf(c) == SelectSeq(history, LAMBDA e : e.cmd = c)

\* command number c has been served (at least up to the hardware write)
Processed(c) == \E i \in DOMAIN history : history[i].cmd = c

PutEv(k, v, c) == [ev |-> "put", key |-> k, val |-> v, cmd |-> c]

IsEv(e, ev, k) == e.ev = ev /\ e.key = k

\* the hardware write made for command number c returned
WriteReturnedFor(c) ==
    \E i \in DOMAIN history :
        IsEv(history[i], "ret", "write_to_channel") /\ history[i].cmd = c

\* the hardware write was invoked for command number c
WriteCalledFor(c) ==
    \E i \in DOMAIN history :
        IsEv(history[i], "call", "write_to_channel") /\ history[i].cmd = c

\* no array among the commands strictly between numbers c and d
NoArrayBetween(c, d) ==
    \A k \in (c + 1)..(d - 1) : sent[k].type # "ndarray"

\* no array among the commands before number d
NeverArmedBefore(d) == \A k \in 1..(d - 1) : sent[k].type # "ndarray"

\* the worker takes the command at the head of the parameter queue
TakesCommand ==
    /\ pc = "run"
    /\ param_queue # <<>>
    /\ param_queue' = Tail(param_queue)
    /\ sent' = sent

\* a command that is no array, not True and not "STOP"
Invalid(data) ==
    /\ data.type # "ndarray"
    /\ data # PyBool(TRUE)
    /\ data # PyStr("STOP")

\* the sample count the claims expect of a written stimulus
ExpectedCount(stim) ==
    IF Len(stim.shape) = 1 THEN stim.shape[1] ELSE stim.shape[2]

\* ------------------------------------------------------------------ claims

\* command d is a served Trigger that follows a returned write for command c
\* with no array in between
SecondTriggerCase(c, d) ==
    /\ c < d
    /\ WriteReturnedFor(c)
    /\ sent[d] = PyBool(TRUE)
    /\ NoArrayBetween(c, d)
    /\ Processed(d)

\* C1: after a Trigger whose hardware write returned, a later Trigger with no
\* Waveform command in between posts stim_sent = false and makes no hardware
\* call.
C1_SingleUseDelivery ==
    \A c \in 1..Len(sent), d \in 1..Len(sent) :
        SecondTriggerCase(c, d) =>
            EventsOf(d) = <<PutEv("stim_sent", PyBool(FALSE), d)>>

C1_Witness ==
    \E c \in 1..Len(sent), d \in 1..Len(sent) :
        /\ SecondTriggerCase(c, d)
        /\ d = c + 1
        /\ \E i \in DOMAIN history :
              /\ history[i] = PutEv("stim_sent", PyBool(TRUE), c)

\* C2: a Trigger taken while no stimulus is held makes no hardware call, posts
\* no t_start_gvs, posts exactly one stim_sent = false, and the worker stays
\* in its event loop.
C2_TriggerWithoutStimulus ==
    [][(TakesCommand /\ Head(param_queue) = PyBool(TRUE) /\ stimulus = None)
        => /\ history' =
                Append(history, PutEv("stim_sent", PyBool(FALSE), Consumed + 1))
           /\ status_queue' =
                Append(status_queue, Msg("stim_sent", PyBool(FALSE)))
           /\ stimulus' = None
           /\ pc' = "run"]_vars

C2_Witness ==
    \E d \in 1..Len(sent) :
        /\ sent[d] = PyBool(TRUE)
        /\ NeverArmedBefore(d)
        /\ EventsOf(d) = <<PutEv("stim_sent", PyBool(FALSE), d)>>
        /\ pc = "run"

\* the call event of the hardware write made for command number c
WriteCallFor(c) ==
    CHOOSE e \in {history[i] : i \in DOMAIN history} :
        IsEv(e, "call", "write_to_channel") /\ e.cmd = c

\* C3: after a hardware write that returned, stim_sent is true exactly when
\* the count written equals the expected count of the stimulus written (its
\* length if 1-D, its second dimension if 2-D); stim_sent = true is posted in
\* no other case.
C3_SentIffAllWritten ==
    /\ \A i \in DOMAIN history :
          (IsEv(history[i], "ret", "write_to_channel")
             /\ Len(WriteCallFor(history[i].cmd).val.shape) \in {1, 2})
          => /\ i < Len(history)
             /\ history[i + 1] =
                  PutEv("stim_sent",
                        PyBool(history[i].val.n =
                               ExpectedCount(WriteCallFor(history[i].cmd).val)),
                        history[i].cmd)
    /\ \A j \in DOMAIN history :
          (IsEv(history[j], "put", "stim_sent") /\ history[j].val = PyBool(TRUE))
          => /\ j > 1
             /\ IsEv(history[j - 1], "ret", "write_to_channel")
             /\ history[j - 1].cmd = history[j].cmd

C3_Witness ==
    \E i \in DOMAIN history :
        /\ IsEv(history[i], "ret", "write_to_channel")
        /\ Len(WriteCallFor(history[i].cmd).val.shape) = 2
        /\ history[i].val.n = ExpectedCount(WriteCallFor(history[i].cmd).val)
        /\ history[i + 1] = PutEv("stim_sent", PyBool(TRUE), history[i].cmd)

\* the status messages the worker has put, in the order of the puts
Posted == StatusOf(history)

\* the status queue holds the messages not yet taken, in the order of the puts
ChannelKeepsPutOrder ==
    LET n == Len(Posted)
        k == Len(status_queue)
    IN  k <= n /\ status_queue = SubSeq(Posted, n - k + 1, n)

\* C4: t_start_gvs is put right before the hardware write is invoked, so it
\* is on the status channel before the stim_sent of the same Trigger, and no
\* stim_sent comes after the t_start_gvs of a later Trigger.
C4_StartBeforeWrite ==
    /\ \A i \in DOMAIN history :
          IsEv(history[i], "call", "write_to_channel")
          => /\ i > 1
             /\ IsEv(history[i - 1], "put", "t_start_gvs")
             /\ history[i - 1].cmd = history[i].cmd
    /\ \A j \in DOMAIN history :
          IsEv(history[j], "put", "stim_sent")
          => /\ WriteCalledFor(history[j].cmd)
                => \E i \in 1..(j - 1) :
                      /\ IsEv(history[i], "put", "t_start_gvs")
                      /\ history[i].cmd = history[j].cmd
             /\ \A i \in 1..(j - 1) :
                   IsEv(history[i], "put", "t_start_gvs")
                   => history[i].cmd <= history[j].cmd
    /\ ChannelKeepsPutOrder

C4_Witness ==
    /\ Len(status_queue) >= 4
    /\ \E j \in DOMAIN history :
          /\ IsEv(history[j], "put", "stim_sent")
          /\ WriteCalledFor(history[j].cmd)
          /\ \E i \in (j + 1)..Len(history) :
                IsEv(history[i], "put", "t_start_gvs")

C6_WaveformArms ==
    /\ \A c \in 1..Consumed :
          sent[c].type = "ndarray"
          => EventsOf(c) = <<PutEv("stim_created", PyBool(TRUE), c)>>
    /\ (Consumed >= 1 /\ sent[Consumed].type = "ndarray")
          => (stimulus = sent[Consumed] /\ pc = "run")

C6_Witness ==
    /\ Consumed = 2
    /\ sent[1].type = "ndarray"
    /\ sent[2].type = "ndarray"
    /\ sent[1] # sent[2]
    /\ stimulus = sent[2]

\* what holds once the worker has left its loop
C7_StoppedState ==
    pc = "done" =>
        LET n == Len(history) IN
        /\ Consumed >= 1
        /\ sent[Consumed] = PyStr("STOP")
        /\ \A k \in 1..(Consumed - 1) : sent[k] # PyStr("STOP")
        /\ n >= 3
        /\ history[n - 2] =
              [ev |-> "call", key |-> "quit", val |-> None, cmd |-> Consumed]
        /\ IsEv(history[n - 1], "ret", "quit")
        /\ history[n] = PutEv("quit", history[n - 1].val, Consumed)
        /\ Cardinality({i \in DOMAIN history :
                            IsEv(history[i], "put", "quit")}) = 1
        /\ \A c \in 1..Consumed : Processed(c)
        /\ \A i \in DOMAIN history, j \in DOMAIN history :
              i < j => history[i].cmd <= history[j].cmd

\* what a step does with "STOP" at the head, and after the loop was left
C7_StopStep ==
    /\ (TakesCommand /\ Head(param_queue) = PyStr("STOP")) => pc' = "done"
    /\ pc = "done"
          => /\ pc' = "done"
             /\ history' = history
             /\ stimulus' = stimulus
             /\ Len(sent') - Len(param_queue') = Consumed

\* C7: "STOP" makes the worker close the hardware handle, post one quit
\* message carrying the result of the close, and leave its loop: every
\* command before the first "STOP" has been served in order, quit is the last
\* event for ever, and nothing is taken off the parameter queue afterwards.
C7_Stop == []C7_StoppedState /\ [][C7_StopStep]_vars

C7_Witness ==
    /\ pc = "done"
    /\ stimulus # None
    /\ history[2].val = PyBool(FALSE)
    /\ Last(history).val = PyBool(FALSE)
    /\ Consumed = 2
    /\ param_queue # <<>>

\* C8: the worker starts by connecting and posting one connected message with
\* the result of the connect call; this is its first status message and it
\* is posted before any command is taken off the parameter queue.
C8_ConnectedFirst ==
    /\ pc = "init" => (history = <<>> /\ Consumed = 0 /\ status_queue = <<>>)
    /\ pc # "init"
          => /\ Len(history) >= 3
             /\ IsEv(history[1], "call", "connect")
             /\ IsEv(history[2], "ret", "connect")
             /\ history[3] = PutEv("connected", history[2].val, 0)
             /\ Posted[1] = Msg("connected", history[2].val)
             /\ Cardinality({i \in DOMAIN history :
                                 IsEv(history[i], "put", "connected")}) = 1
             /\ \A i \in DOMAIN history : i > 3 => history[i].cmd >= 1

C8_Witness ==
    /\ pc = "run"
    /\ Consumed = 0
    /\ Len(param_queue) >= 2
    /\ status_queue = <<Msg("connected", PyBool(FALSE))>>

\* the connect call returned False
ConnectFailed ==
    /\ Len(history) >= 3
    /\ history[3] = PutEv("connected", PyBool(FALSE), 0)

StopAtHead == param_queue # <<>> /\ Head(param_queue) = PyStr("STOP")

\* C9: when the connect call fails the worker still serves its queue: a
\* "STOP" at the head of the parameter queue is then eventually answered by
\* quit and the worker terminates.
C9_StopAfterFailedConnect ==
    (ConnectFailed /\ StopAtHead /\ (Consumed = 0 \/ pc = "run"))
        ~> (pc = "done" /\ IsEv(Last(history), "put", "quit"))

C9_Witness ==
    /\ ConnectFailed
    /\ pc = "done"
    /\ Consumed = 1
    /\ IsEv(Last(history), "put", "quit")

\* some message of q holds the key k
HasKey(q, k) == \E i \in DOMAIN q : q[i].key = k

\* the position of the first message of q that holds the key k
FirstWithKey(q, k) ==
    CHOOSE i \in DOMAIN q : q[i].key = k /\ \A j \in 1..(i - 1) : q[j].key # k

\* C10: a blocking await takes messages off the channel in arrival order up
\* to and including the first one that holds the key, returns the value of
\* that one, and leaves the messages behind it on the channel in their order;
\* the messages taken are not put back.
C10_BlockingAwait ==
    blocking =>
        /\ apc = "returned"
              => /\ HasKey(arrived, key)
                 /\ LET i == FirstWithKey(arrived, key) IN
                    /\ result = arrived[i].val
                    /\ removed = SubSeq(arrived, 1, i)
                    /\ chan = SubSeq(arrived, i + 1, Len(arrived))
        /\ apc = "call"
              => /\ ~HasKey(removed, key)
                 /\ removed \o chan = arrived

C10_Witness ==
    /\ blocking
    /\ apc = "returned"
    /\ Len(removed) = 3
    /\ Len(chan) = 1
    /\ result = PyBool(FALSE)
    /\ chan[1].key = key

\* a pass of the loop of the await
AwaitStep == apc = "call" /\ (apc' # apc \/ removed' # removed)

\* C11: a non-blocking await can always take its step, which returns: none
\* on an empty channel, which it leaves empty, and none whenever no message
\* on the channel holds the key.
C11_NonBlockingAwait ==
    /\ []((~blocking /\ apc = "call") => ENABLED (CheckGet \/ CheckEmpty))
    /\ [][(~blocking /\ AwaitStep)
            => /\ apc' = "returned"
               /\ chan = <<>> => (result' = None /\ chan' = <<>>)
               /\ ~HasKey(chan, key) => result' = None]_vars

C11_Witness ==
    /\ ~blocking
    /\ apc = "returned"
    /\ Len(removed) = 1
    /\ Len(chan) = 2
    /\ ~HasKey(arrived, key)
    /\ result = None

\* the array the worker was last armed with before it served command c
ArmedBefore(c) ==
    LET k == CHOOSE k \in 1..(c - 1) :
                /\ sent[k].type = "ndarray"
                /\ \A j \in (k + 1)..(c - 1) : sent[j].type # "ndarray"
    IN  sent[k]

\* the array w with one zero sample appended to its row (1-D) or rows (2-D)
WithTrailingZero(w) ==
    IF Len(w.shape) = 1
    THEN NdArray(<<w.shape[1] + 1>>, Append(w.data, 0))
    ELSE LET rows == w.shape[1]
             n    == w.shape[2]
         IN  NdArray(<<rows, n + 1>>,
                     [i \in 1..(rows * (n + 1)) |->
                        IF i % (n + 1) = 0 THEN 0
                        ELSE w.data[((i - 1) \div (n + 1)) * n + (i % (n + 1))]])

\* C17: the array handed to the hardware write is the armed waveform with one
\* trailing zero sample, and stim_sent = true is posted exactly when the
\* write reports the length of the waveform plus one.
C17_TrailingZeroWritten ==
    \A i \in DOMAIN history :
        /\ IsEv(history[i], "call", "write_to_channel")
              => history[i].val = WithTrailingZero(ArmedBefore(history[i].cmd))
        /\ (IsEv(history[i], "ret", "write_to_channel") /\ i < Len(history))
              => history[i + 1] =
                    PutEv("stim_sent",
                          PyBool(history[i].val.n =
                                 ExpectedCount(ArmedBefore(history[i].cmd)) + 1),
                          history[i].cmd)

\* C19: when the hardware write has ended, by returning or by raising, and
\* the worker is back in its loop, it holds no stimulus.
C19_DiscardedAfterWrite ==
    [][(pc = "write" /\ pc' = "run") => stimulus' = None]_vars

\* C20: the hardware write has been invoked at most as many times as arrays
\* were accepted with stim_created = true.
C20_WritesBoundedByArms ==
    Cardinality({i \in DOMAIN history :
                    IsEv(history[i], "call", "write_to_channel")})
    <= Cardinality({i \in DOMAIN history :
                    history[i] = PutEv("stim_created", PyBool(TRUE),
                                       history[i].cmd)})

\* C18: for a waveform of n >= 2 samples the encoding returns two rows of
\* n + 1 samples ending in zero; the first (auxiliary) row has +blip at its
\* first and -blip at its n-th sample and the waveform elsewhere, the second
\* (primary) row is the waveform as it was passed, and the caller's array is
\* not changed.
C18_DualChannelEncoding ==
    (fpc = "returned" /\ Len(wave_in) >= 2) =>
        LET n == Len(wave_in) IN
        /\ Len(stacked) = 2
        /\ Len(stacked[1]) = n + 1 /\ stacked[1][n + 1] = 0
        /\ Len(stacked[2]) = n + 1 /\ stacked[2][n + 1] = 0
        /\ stacked[1][1] = BlipVoltage
        /\ stacked[1][n] = -BlipVoltage
        /\ \A i \in 2..(n - 1) : stacked[1][i] = wave_in[i]
        /\ \A i \in 1..n : stacked[2][i] = wave_in[i]
        /\ gvs_wave = wave_in

\* the trigger worker takes a step of its loop
TrigStep == tpc' # tpc

\* the trigger events on return_queue
TriggerEvents == SelectSeq(return_queue, LAMBDA m : m.key = "")

\* the sample the step has read, when it read one
SampleRead == Len(reads') = Len(reads) + 1

\* C14: run() starts awaiting; while awaiting, a read latches iff it gave a
\* sample with a timestamp whose value is 634 or 635; a latch stores the
\* sample's timestamp, forwards one event carrying it and stops awaiting;
\* nothing else forwards an event.
C14_LatchRecognized ==
    /\ [][(tpc = "init" /\ TrigStep) => get_trigger']_vars
    /\ [][(tpc = "body" /\ get_trigger /\ TrigStep) =>
            LET latch == return_queue' # return_queue
                timed == SampleRead /\ Last(reads').val.type = "int"
                         /\ Last(reads').ts = now
            IN  /\ latch <=> (timed /\ Last(reads').val.n \in {634, 635})
                /\ latch =>
                    /\ trigger_time' = PyFloat(Last(reads').ts)
                    /\ return_queue' =
                         Append(return_queue, TriggerEvent(Last(reads').ts))
                    /\ ~get_trigger'
                /\ ~latch => get_trigger']_vars
    /\ [][(tpc # "init" /\ ~(tpc = "body" /\ get_trigger))
            => return_queue' = return_queue]_vars

C14_Witness ==
    /\ Len(reads) = 2
    /\ reads[1].val = PyInt(0) /\ ~reads[1].latched
    /\ reads[2].val = PyInt(635) /\ reads[2].latched /\ reads[2].ts = 2
    /\ trigger_time = PyFloat(2)
    /\ ~get_trigger
    /\ TriggerEvents = <<TriggerEvent(2)>>

\* C15: no two events come from samples of one run of a recognized code,
\* and the example stream gives two events, both once it has been read.
C15_OneEventPerRun ==
    /\ \A i, j \in DOMAIN reads :
          (i < j /\ reads[i].latched /\ reads[j].latched)
              => \E k \in i..j : reads[k].val # reads[i].val
    /\ ([i \in DOMAIN reads |-> reads[i].val] \o serial = ExampleStream) =>
          /\ Len(TriggerEvents) <= 2
          /\ serial = <<>> => Len(TriggerEvents) = 2

\* the stop sentinel has been taken off in_queue
StopConsumed ==
    \E i \in 1..(Len(in_sent) - Len(in_queue)) : in_sent[i] = "STOP"

TrialPattern ==
    <<Did("send", "Waveform"), Did("recv", "stim_created"),
      Did("send", "Trigger"), Did("recv", "t_start_gvs"),
      Did("recv", "stim_sent")>>

\* the sends and receipts of the trials, in the order they happened
TrialEvents ==
    SelectSeq(elog, LAMBDA d : \E i \in DOMAIN TrialPattern : d = TrialPattern[i])

\* the keys of the messages the awaits of the main process passed over
DroppedKeys == {edropped[i].key : i \in DOMAIN edropped}

\* C12: the sends and receipts of the trials follow, trial after trial, the
\* order Waveform, stim_created, Trigger, t_start_gvs, stim_sent; the
\* stim_created and stim_sent received are those of the trial: no await has
\* passed over a stim_created, nor over a stim_sent before teardown.
C12_TrialOrder ==
    /\ \A i \in DOMAIN TrialEvents :
          TrialEvents[i] = TrialPattern[((i - 1) % Len(TrialPattern)) + 1]
    /\ "stim_created" \notin DroppedKeys
    /\ "stim_sent" \in DroppedKeys =>
          \E i \in DOMAIN elog : elog[i] = Did("send", "Stop")

C12_Witness ==
    /\ epc = "quit_exp"
    /\ n_trials = 2
    /\ TrialEvents = TrialPattern \o TrialPattern
    /\ Len(elog) = 11

\* what the main process does at teardown, in the order of quit_exp
TeardownPattern ==
    <<Did("send", "Stop"), Did("recv", "quit"), Did("join", "gvs_process"),
      Did("send", "None"), Did("join", "log_listener")>>

\* C13: after Stop the main process does, in this order and nothing else:
\* receive quit, join the worker (which has ended), send the log sentinel,
\* join the Listener (which has ended); no record of the stimulus worker
\* follows the sentinel on the log queue.
C13_TeardownOrder ==
    /\ \A i \in DOMAIN elog :
          elog[i] = Did("send", "Stop") =>
              /\ Len(elog) - i < Len(TeardownPattern)
              /\ \A j \in i..Len(elog) : elog[j] = TeardownPattern[j - i + 1]
    /\ \A i \in DOMAIN elog :
          (\E j \in 2..Len(TeardownPattern) : elog[i] = TeardownPattern[j])
              => \E k \in 1..i : elog[k] = Did("send", "Stop")
    /\ (\E i \in DOMAIN elog : elog[i] = Did("join", "gvs_process"))
          => pc \in {"done", "crashed"}
    /\ (\E i \in DOMAIN elog : elog[i] = Did("join", "log_listener"))
          => lpc = "done"
    /\ \A i, j \in DOMAIN logging_queue :
          (i < j /\ logging_queue[i] = LogSentinel)
              => logging_queue[j].name # "GVSHandler"

C13_Witness ==
    /\ epc = "exited"
    /\ trial_nr = 1
    /\ SubSeq(elog, Len(elog) - 4, Len(elog)) = TeardownPattern
    /\ Last(logging_queue) = LogSentinel
    /\ \E i \in DOMAIN logging_queue :
          /\ logging_queue[i].name = "GVSHandler"
          /\ logging_queue[i].text = "GVS: samples written"

\* an array that is no waveform: an axis of length 0, or not 1 or 2 axes
WrongShape(data) ==
    /\ data.type = "ndarray"
    /\ \/ Len(data.shape) \notin {1, 2}
       \/ \E i \in DOMAIN data.shape : data.shape[i] = 0

\* C21: an array of the wrong shape taken off the parameter queue is answered
\* by stim_created = false and an error record and leaves the held stimulus
\* as it was.
C21_MalformedRejected ==
    [][(TakesCommand /\ WrongShape(Head(param_queue)))
          => /\ status_queue' =
                    Append(status_queue, Msg("stim_created", PyBool(FALSE)))
             /\ Len(logging_queue') = Len(logging_queue) + 1
             /\ Last(logging_queue').level = "ERROR"
             /\ stimulus' = stimulus]_vars

\* the keys of the status messages the worker has put for command number c
AnswerKeys(c) ==
    LET puts == SelectSeq(EventsOf(c), LAMBDA e : e.ev = "put")
    IN  [i \in DOMAIN puts |-> puts[i].key]

\* command number c has had the answer its kind is owed
Answered(c) ==
    IF sent[c] = PyStr("STOP") THEN AnswerKeys(c) = <<"quit">>
    ELSE IF sent[c] = PyBool(TRUE)
         THEN IF WriteCalledFor(c)
              THEN AnswerKeys(c) = <<"t_start_gvs", "stim_sent">>
              ELSE AnswerKeys(c) = <<"stim_sent">>
         ELSE AnswerKeys(c) = <<"stim_created">>

\* C22: every command taken off the parameter queue has its answer on the
\* status channel (stim_created for an array or an invalid command, stim_sent
\* for True, after t_start_gvs when a write was made, quit for "STOP") once
\* the worker is no longer inside the hardware write for it, also when the
\* write ended by an error; the answers come in command order.
C22_BoundedResponse ==
    /\ \A c \in 1..Consumed : (c < Consumed \/ pc # "write") => Answered(c)
    /\ \A i \in DOMAIN history, j \in DOMAIN history :
          i < j => history[i].cmd <= history[j].cmd

\* the main process has put "STOP" on the parameter queue
StopSent == \E i \in DOMAIN elog : elog[i] = Did("send", "Stop")

\* a hardware write has ended by an exception
WriteRaised ==
    \E i \in DOMAIN history : IsEv(history[i], "raise", "write_to_channel")

\* the worker process has died of an uncaught exception
WorkerDied == pc = "crashed"

\* C23: once the main process has sent Stop to a living worker, it comes to
\* receive quit, joins the worker and the Listener and ends, whichever value
\* of quit the worker posts.
C23_TeardownTerminates ==
    (StopSent /\ ~WorkerDied) ~> (epc = "exited" \/ WorkerDied)

\* the main process is inside a blocking _check_gvs_status
Awaiting ==
    epc \in {"setup", "await_created", "await_t_start", "await_sent",
             "await_quit"}

\* C24: as long as no hardware write has raised, the awaits of the main
\* process pass over nothing but a t_start_gvs or stim_sent left behind at
\* teardown, and every await the main process is in comes to return.
C24_AwaitsReturn ==
    /\ [](~WriteRaised =>
            /\ DroppedKeys \subseteq {"t_start_gvs", "stim_sent"}
            /\ DroppedKeys # {} => StopSent)
    /\ (Awaiting /\ ~WriteRaised) ~> (~Awaiting \/ WriteRaised)

\* Stop was sent while the worker is inside the hardware write
MidWriteStop ==
    /\ epc = "await_quit"
    /\ pc = "write"
    /\ param_queue # <<>>
    /\ Last(param_queue) = PyStr("STOP")

\* C25: when Stop is sent while the worker is inside the hardware write, the
\* worker ends the write and posts stim_sent before it takes Stop; the await
\* for quit passes over a pending stim_sent or t_start_gvs and goes on
\* waiting; and unless the write kills the worker, teardown comes to its end.
C25_StopDuringWrite ==
    /\ [][(MidWriteStop /\ pc' # pc) =>
            /\ param_queue' = param_queue
            /\ pc' = "run" =>
                  /\ Len(status_queue') = Len(status_queue) + 1
                  /\ Last(status_queue').key = "stim_sent"]_vars
    /\ [][(/\ epc = "await_quit"
           /\ status_queue # <<>>
           /\ Head(status_queue).key \in {"stim_sent", "t_start_gvs"}
           /\ status_queue' = Tail(status_queue)) =>
            /\ epc' = "await_quit"
            /\ edropped' = Append(edropped, Head(status_queue))]_vars
    /\ MidWriteStop ~> (epc = "exited" \/ WorkerDied)

\* the timestamps of the trigger events, in the order they were forwarded
EventTimes == [i \in DOMAIN TriggerEvents |-> TriggerEvents[i].val.n]

\* C26: after a latch the search is taken up again only by the lockout
\* check, only when more than 0.1 s (one tick of the clock) have passed
\* since the stored timestamp, and then the timestamp is cleared; until then
\* the stored timestamp is that of the last event; the timestamps of two
\* events forwarded one after the other differ by more than 0.1 s.
C26_LockoutInterval ==
    /\ [][(tpc # "init" /\ ~get_trigger /\ get_trigger') =>
            /\ tpc = "body"
            /\ trigger_time.type = "float"
            /\ now - trigger_time.n > 1
            /\ trigger_time' = None]_vars
    /\ [][(tpc = "body" /\ ~get_trigger /\ TrigStep
             /\ now - trigger_time.n > 1) => get_trigger']_vars
    /\ []((tpc \in {"poll", "body"} /\ ~get_trigger) =>
            /\ TriggerEvents # <<>>
            /\ trigger_time = Last(TriggerEvents).val)
    /\ [](\A i \in 1..(Len(EventTimes) - 1) :
            EventTimes[i + 1] - EventTimes[i] > 1)

C26_Witness ==
    /\ EventTimes = <<1, 3>>
    /\ ~get_trigger
    /\ trigger_time = PyFloat(3)
    /\ now = 4

\* arduino.connect() did not return True: connected False was reported
ArduinoConnectFailed ==
    /\ tpc \notin {"idle", "init"}
    /\ return_queue # <<>>
    /\ return_queue[1] = Msg("connected", PyBool(FALSE))

\* the worker takes "STOP" from in_queue
TakesStop ==
    /\ tpc = "poll"
    /\ in_queue # <<>>
    /\ Head(in_queue) = "STOP"
    /\ TrigStep

\* the last line read_voltage took from the port was no number
GarbageRead == reads # <<>> /\ Last(reads).val.type # "int"

\* C27: when the connection fails (no device, or no handshake) the worker
\* reports connected False, keeps running its loop (it does not end with an
\* exception, a garbage line apart), forwards no trigger event, and a later
\* "STOP" ends it cleanly.
C27_FailedConnectKeepsRunning ==
    /\ []((tpc \notin {"idle", "init"} /\ serial_in = "none") =>
            ArduinoConnectFailed)
    /\ []((ArduinoConnectFailed /\ tpc = "crashed") => GarbageRead)
    /\ [](ArduinoConnectFailed => TriggerEvents = <<>>)
    /\ [][(ArduinoConnectFailed /\ TakesStop) => tpc' = "done"]_vars

\* a line that is no number is taken from the port
ReadsGarbage ==
    /\ tpc = "body"
    /\ get_trigger
    /\ serial_in = "open"
    /\ serial # <<>>
    /\ Head(serial).type # "int"
    /\ TrigStep

\* C28: a read that gives a line that is no number is passed over: no event
\* is forwarded, the awaiting flag and the stored timestamp stay as they
\* are, and the loop goes on with the next poll of in_queue.
C28_BadReadSkipped ==
    [][ReadsGarbage =>
        /\ return_queue' = return_queue
        /\ get_trigger' = get_trigger
        /\ trigger_time' = trigger_time
        /\ tpc' = "poll"]_vars

\* the original statement of C29: a stopped worker holds no stimulus
C29_StoppedHoldsNothing == pc = "done" => stimulus = None

\* C29 (amended): the step that takes "STOP" leaves the held stimulus as it
\* is, so a stimulus armed and not written is still held by the stopped
\* worker; the stopped worker makes no hardware write and its stimulus no
\* longer changes.
C29_StopKeepsStimulus ==
    /\ [][(TakesCommand /\ Head(param_queue) = PyStr("STOP")) =>
            /\ stimulus' = stimulus
            /\ pc' = "done"
            /\ \A i \in DOMAIN history' :
                  i > Len(history) => history'[i].key = "quit"]_vars
    /\ [][pc = "done" => (stimulus' = stimulus /\ history' = history)]_vars
    /\ []((pc = "done" /\ stimulus # None) =>
            stimulus = ArmedBefore(Consumed))

C29_Witness ==
    /\ pc = "done"
    /\ Consumed = 2
    /\ sent[1].type = "ndarray"
    /\ stimulus = sent[1]

\* C30: the worker holds at most one stimulus, the array it took last: an
\* array taken while one is held replaces it and is answered by
\* stim_created = true; a trigger taken while a stimulus is held calls the
\* hardware write with the held one; every hardware write is called with the
\* array taken last before its trigger, so a replaced array is not written.
C30_LastArmedWritten ==
    /\ [][(TakesCommand /\ Head(param_queue).type = "ndarray"
             /\ stimulus # None) =>
            /\ stimulus' = Head(param_queue)
            /\ history' = Append(history,
                    PutEv("stim_created", PyBool(TRUE), Consumed + 1))]_vars
    /\ [][(TakesCommand /\ Head(param_queue) = PyBool(TRUE)
             /\ stimulus # None) =>
            \E i \in DOMAIN history' :
                /\ i > Len(history)
                /\ IsEv(history'[i], "call", "write_to_channel")
                /\ history'[i].val = stimulus]_vars
    /\ [](stimulus # None => stimulus = ArmedBefore(Consumed + 1))
    /\ [](\A i \in DOMAIN history :
            IsEv(history[i], "call", "write_to_channel")
               => history[i].val = ArmedBefore(history[i].cmd))

C30_Witness ==
    /\ Consumed = 3
    /\ sent[1].type = "ndarray"
    /\ sent[2].type = "ndarray"
    /\ sent[1] # sent[2]
    /\ sent[3] = PyBool(TRUE)
    /\ \E i \in DOMAIN history :
          /\ IsEv(history[i], "call", "write_to_channel")
          /\ history[i].val = sent[2]
          /\ history[i].cmd = 3

\* C31: a non-blocking await on a channel that is not empty takes exactly
\* the first message off it and returns: the value of that message when it
\* holds the key, none otherwise, whatever is queued behind it; the messages
\* behind it stay on the channel in their order.
C31_NonBlockingTakesOne ==
    /\ [][(~blocking /\ AwaitStep /\ chan # <<>>) =>
            /\ removed' = <<Head(chan)>>
            /\ chan' = Tail(chan)
            /\ apc' = "returned"
            /\ result' = IF Head(chan).key = key THEN Head(chan).val
                                                 ELSE None]_vars
    /\ []((~blocking /\ apc = "returned") =>
            /\ Len(removed) <= 1
            /\ removed \o chan = arrived
            /\ (removed # <<>> /\ removed[1].key # key) => result = None)

C31_Witness ==
    /\ ~blocking
    /\ apc = "returned"
    /\ Len(removed) = 1
    /\ removed[1].key # key
    /\ chan # <<>>
    /\ chan[1].key = key
    /\ result = None

\* C32: while get_trigger is False the worker takes nothing from the port:
\* the pending lines stay as they are and no read is recorded; a read
\* happens only while searching, takes the first pending line, stamps it
\* with the time of the read and latches iff it is 634 or 635; so the read
\* that follows a latch is more than 0.1 s (one tick) later than it.
C32_NoReadInLockout ==
    /\ [][(~get_trigger /\ tpc \in {"poll", "body"}) =>
            (serial' = serial /\ reads' = reads)]_vars
    /\ [][SampleRead =>
            /\ get_trigger
            /\ serial' = Tail(serial)
            /\ reads' = Append(reads,
                   [val |-> Head(serial), ts |-> now,
                    latched |-> Head(serial) \in {PyInt(634), PyInt(635)}])
          ]_vars
    /\ [](\A i \in 1..(Len(reads) - 1) :
            reads[i].latched => reads[i + 1].ts - reads[i].ts > 1)

C32_Witness ==
    /\ Len(reads) = 2
    /\ reads[1] = [val |-> PyInt(634), ts |-> 2, latched |-> TRUE]
    /\ reads[2] = [val |-> PyInt(634), ts |-> 4, latched |-> TRUE]
    /\ serial = <<>>
    /\ tpc = "poll"

====
